---- MODULE Spec2Model ----
(***************************************************************************)
(* Model of monitor_firmware/src/main.cpp: the control loop of a serial    *)
(* telemetry display (ESP32, TFT_eSPI, ArduinoJson).                       *)
(*                                                                         *)
(* Conventions                                                             *)
(*  - float values are kept in tenths (42.5 is 425); int fields of         *)
(*    SystemStats are kept in whole units, converted by AsInt.             *)
(*  - times are in milliseconds.  The program uses millis() only in the    *)
(*    differences millis() - lastDataTime and millis() - lastDrawTime, so  *)
(*    the model keeps these two differences (sinceData, sinceDraw) instead *)
(*    of the three absolute values: "lastDataTime = millis()" sets         *)
(*    sinceData to 0 and passing time adds to both.  Each is held at the   *)
(*    first value above the threshold it is compared with, the program     *)
(*    behaving alike for all larger ones (up to the wrap of millis() after *)
(*    2^32 ms).  Time advances by Quantum, the length of the only blocking *)
(*    call of loop(), delay(300); straight-line code takes less than a     *)
(*    quantum, so the millis() reads of one cycle that follow the delays   *)
(*    see the same value.                                                  *)
(*  - a serial line is modelled by its syntax class, its size and the      *)
(*    JSON document it spells; a document is a record holding exactly the  *)
(*    groups present, each group a record holding exactly the members      *)
(*    present.                                                             *)
(***************************************************************************)
EXTENDS Integers, Sequences, FiniteSets, TLC

VARIABLES
  pc,            \* "setup" before setup() has run, "loop" afterwards
  currentMode,   \* main.cpp:21
  modeChanged,   \* main.cpp:22
  stats,         \* main.cpp:52
  sinceData,     \* millis() - lastDataTime, main.cpp:54
  isConnected,   \* main.cpp:55
  lastBtn,       \* main.cpp:263 (static local of loop)
  sinceDraw,     \* millis() - lastDrawTime, main.cpp:341
  screen,        \* what the last pushSprite / splash put on the display
  \* observations of the last cycle of loop()
  touch,         \* the touch sample the cycle took (getTouch)
  line,          \* the serial line the cycle consumed, NoLine if none
  dataUpdated,   \* the local dataUpdated at the redraw decision
  drawAge,       \* millis() - lastDrawTime at the redraw decision
  drawn,         \* whether the cycle invoked a renderer
  changes,       \* the reassignments of currentMode made by the cycle
  sinceChange,   \* real time since the last reassignment of currentMode
  delayed,       \* the time the cycle spent in delay()
  repeated,      \* whether the cycle decoded the very line that the
                 \* previous cycle decoded
  again          \* whether the button, held at the previous digitalRead,
                 \* was released after it and pressed anew once the
                 \* previous cycle's delays were over, to be held up to
                 \* this cycle's digitalRead

vars == <<pc, currentMode, modeChanged, stats, sinceData, isConnected,
          lastBtn, sinceDraw, screen, touch, line, dataUpdated, drawAge,
          drawn, changes, sinceChange, delayed, repeated, again>>

----------------------------------------------------------------------------
(* Program constants *)

COLOR_BG == 0
COLOR_TEXT == 63488
COLOR_DIM == 34816
COLOR_BRIGHT == 64928
COLOR_WARN == 65504
COLOR_COLD == 8452

TOUCH_THRESHOLD == 600
TOUCH_LEFT_ZONE == 80
TOUCH_RIGHT_ZONE == 240

MODE_STATS == "MODE_STATS"
MODE_REACTOR == "MODE_REACTOR"

HIGH == TRUE
LOW == FALSE

MAX_CORES == 16
DOC_CAPACITY == 1536
SPLASH_MS == 1500
DEBOUNCE_MS == 300
LINK_TIMEOUT_MS == 3000
KEEPALIVE_MS == 200

Quantum == DEBOUNCE_MS

(* The value a time difference is held at once it exceeds threshold *)
Above(threshold) == ((threshold \div Quantum) + 1) * Quantum

Min(a, b) == IF a < b THEN a ELSE b

----------------------------------------------------------------------------
(* SystemStats, main.cpp:24-51 *)

Cores0 == [i \in 0..(MAX_CORES - 1) |-> 0]

SystemStats ==
  [cpu_load |-> 0, cpu_temp |-> 0, cpu_freq |-> 0, cpu_pwr |-> 0,
   cores |-> Cores0, core_count |-> 0,
   ram_used |-> 0, ram_total |-> 0, ram_p |-> 0,
   swap_used |-> 0, swap_p |-> 0,
   cpu_fan |-> 0,
   gpu_load |-> 0, vram_used |-> 0, vram_total |-> 0, gpu_temp |-> 0,
   gpu_pwr |-> 0, gpu_fan |-> 0,
   disk_p |-> 0, net_sent |-> 0, net_recv |-> 0]

----------------------------------------------------------------------------
(* Serial lines *)

NoDoc == [g \in {} |-> 0]

DocFull ==
  [cpu  |-> [load |-> 425, temp |-> 550, freq |-> 36000, pwr |-> 654,
             fan |-> 12000, cores |-> <<100, 355, 600, 950>>],
   ram  |-> [used |-> 123, total |-> 320, p |-> 384],
   swap |-> [used |-> 10, p |-> 125],
   gpu  |-> [gpu_load |-> 300, vram_used |-> 20480, vram_total |-> 81920,
             gpu_temp |-> 610, gpu_pwr |-> 1205, gpu_fan |-> 450],
   disk |-> [p |-> 712],
   net  |-> [sent |-> 15, recv |-> 27]]

(* A hot machine with two cores and no fan members *)
DocHot ==
  [cpu  |-> [load |-> 850, temp |-> 905, freq |-> 42005, pwr |-> 1100,
             cores |-> <<800, 199>>],
   ram  |-> [used |-> 288, total |-> 320, p |-> 900],
   swap |-> [used |-> 40, p |-> 500],
   gpu  |-> [gpu_load |-> 810, vram_used |-> 40960, vram_total |-> 81920,
             gpu_temp |-> 800, gpu_pwr |-> 2509],
   disk |-> [p |-> 950],
   net  |-> [sent |-> 16, recv |-> 28]]

(* DocFull without its gpu group *)
DocNoGpu == [g \in DOMAIN DocFull \ {"gpu"} |-> DocFull[g]]

Groups == {"cpu", "ram", "swap", "gpu", "disk", "net"}

NoLine      == [syntax |-> "none",       bytes |-> 0,    doc |-> NoDoc]
LineFull    == [syntax |-> "ok",         bytes |-> 310,  doc |-> DocFull]
LineHot     == [syntax |-> "ok",         bytes |-> 280,  doc |-> DocHot]
LineNoGpu   == [syntax |-> "ok",         bytes |-> 200,  doc |-> DocNoGpu]
LineEmpty   == [syntax |-> "ok",         bytes |-> 2,    doc |-> NoDoc]
LineGarbage == [syntax |-> "invalid",    bytes |-> 12,   doc |-> NoDoc]
LineCut     == [syntax |-> "incomplete", bytes |-> 150,  doc |-> NoDoc]
LineHuge    == [syntax |-> "ok",         bytes |-> 2000, doc |-> DocFull]

(* A machine reporting one core more than SystemStats has slots for *)
DocMany ==
  [DocFull EXCEPT !.cpu.cores = [i \in 1..(MAX_CORES + 1) |-> 50 * i + 5]]
LineMany == [syntax |-> "ok", bytes |-> 400, doc |-> DocMany]

(* A machine whose core loads sit on and around the edges of the heat      *)
(* bands: 19.9, 20.0, ... 80.0, 100.0 and a load beyond 100                *)
BandLoads == <<0, 199, 200, 399, 400, 599, 600, 799, 800, 1000, 1500>>
DocBands == [DocFull EXCEPT !.cpu.cores = BandLoads]
LineBands == [syntax |-> "ok", bytes |-> 350, doc |-> DocBands]

(* Machines whose loads sit on and just above the warning thresholds of    *)
(* the Dashboard: cpu load, gpu load, ram, swap and disk percentage        *)
WarnLine(c, g, r, s, d) ==
  [syntax |-> "ok", bytes |-> 310,
   doc |-> [DocFull EXCEPT !.cpu.load = c, !.gpu.gpu_load = g, !.ram.p = r,
                           !.swap.p = s, !.disk.p = d]]
WarnLines ==
  {WarnLine(c, g, r, s, d) :
     c \in {800, 801}, g \in {800, 809, 810}, r \in {850, 851},
     s \in {500, 501}, d \in {900, 901}}

Lines ==
  {LineFull, LineHot, LineNoGpu, LineEmpty, LineGarbage, LineCut, LineHuge}

(* deserializeJson(doc, line) into a StaticJsonDocument<1536>: the error   *)
(* code, and the document when there is none.                              *)
deserializeJson(l) ==
  IF l.syntax = "invalid" THEN [error |-> "InvalidInput", doc |-> NoDoc]
  ELSE IF l.syntax = "incomplete" THEN [error |-> "IncompleteInput", doc |-> NoDoc]
  ELSE IF l.bytes > DOC_CAPACITY THEN [error |-> "NoMemory", doc |-> NoDoc]
  ELSE [error |-> "Ok", doc |-> l.doc]

(* doc[g][f]: a missing group or member reads as a null variant *)
HasMember(doc, g, f) == g \in DOMAIN doc /\ f \in DOMAIN doc[g]

(* float x = doc[g][f]; null converts to 0 *)
AsFloat(doc, g, f) == IF HasMember(doc, g, f) THEN doc[g][f] ELSE 0

(* int x = doc[g][f]; the value is truncated, null converts to 0 *)
AsInt(doc, g, f) == IF HasMember(doc, g, f) THEN doc[g][f] \div 10 ELSE 0

(* JsonArray cores = doc["cpu"]["cores"]; a null array has size 0 *)
AsArray(doc, g, f) == IF HasMember(doc, g, f) THEN doc[g][f] ELSE <<>>

(* main.cpp:301-329: the assignments of a successful decode *)
Decode(st, doc) ==
  LET cores == AsArray(doc, "cpu", "cores")
      n == Min(Len(cores), MAX_CORES)
  IN [cpu_load |-> AsFloat(doc, "cpu", "load"),
      cpu_temp |-> AsFloat(doc, "cpu", "temp"),
      cpu_freq |-> AsInt(doc, "cpu", "freq"),
      cpu_pwr |-> AsFloat(doc, "cpu", "pwr"),
      cpu_fan |-> AsInt(doc, "cpu", "fan"),
      core_count |-> n,
      cores |-> [i \in 0..(MAX_CORES - 1) |->
                   IF i < n THEN cores[i + 1] ELSE st.cores[i]],
      ram_used |-> AsFloat(doc, "ram", "used"),
      ram_total |-> AsFloat(doc, "ram", "total"),
      ram_p |-> AsFloat(doc, "ram", "p"),
      swap_used |-> AsFloat(doc, "swap", "used"),
      swap_p |-> AsFloat(doc, "swap", "p"),
      gpu_load |-> AsInt(doc, "gpu", "gpu_load"),
      vram_used |-> AsFloat(doc, "gpu", "vram_used"),
      vram_total |-> AsFloat(doc, "gpu", "vram_total"),
      gpu_temp |-> AsInt(doc, "gpu", "gpu_temp"),
      gpu_pwr |-> AsFloat(doc, "gpu", "gpu_pwr"),
      gpu_fan |-> AsInt(doc, "gpu", "gpu_fan"),
      disk_p |-> AsFloat(doc, "disk", "p"),
      net_sent |-> AsFloat(doc, "net", "sent"),
      net_recv |-> AsFloat(doc, "net", "recv")]

----------------------------------------------------------------------------
(* Renderers.  A frame is what pushSprite sends to the display: the layout, *)
(* the texts as the numbers they print, and the colours.                   *)

(* (int)x of a float kept in tenths *)
ToInt(x) == x \div 10

(* String(x / 1024.0, 1): x in tenths, the result in tenths, rounded *)
Fmt1Div1024(x) == (2 * x + 1024) \div 2048

(* main.cpp:90-98 *)
drawLine(label, value, color) ==
  [label |-> label, value |-> value, labelColor |-> COLOR_DIM, color |-> color]

(* main.cpp:145-146 and 255-256 *)
StatusText(conn) == IF conn THEN "ONLINE" ELSE "OFFLINE"
StatusColor(conn) == IF conn THEN COLOR_TEXT ELSE COLOR_WARN

(* main.cpp:100-150 *)
(* drawStatsScreen warning from the threshold on *)
drawStatsScreenWarnAt(st, conn) ==
  LET cpuColor == IF st.cpu_load >= 800 THEN COLOR_WARN ELSE COLOR_TEXT
      gpuColor == IF st.gpu_load >= 80 THEN COLOR_WARN ELSE COLOR_TEXT
      ramColor == IF st.ram_p >= 850 THEN COLOR_WARN ELSE COLOR_TEXT
      swapColor == IF st.swap_p >= 500 THEN COLOR_WARN ELSE COLOR_TEXT
      diskColor == IF st.disk_p >= 900 THEN COLOR_WARN ELSE COLOR_TEXT
  IN [layout |-> MODE_STATS,
      title |-> "SYSTEM MONITOR",
      rows |-> << drawLine("CPU", <<ToInt(st.cpu_load), ToInt(st.cpu_temp)>>, cpuColor),
                  drawLine("GPU", <<st.gpu_load, st.gpu_temp>>, gpuColor),
                  drawLine("PWR", <<ToInt(st.gpu_pwr)>>, COLOR_TEXT),
                  drawLine("VRAM", <<Fmt1Div1024(st.vram_used),
                                     Fmt1Div1024(st.vram_total)>>, COLOR_TEXT),
                  drawLine("RAM", <<st.ram_used, st.ram_total>>, ramColor),
                  drawLine("SWAP", <<ToInt(st.swap_p)>>, swapColor),
                  drawLine("DISK", <<ToInt(st.disk_p)>>, diskColor) >>,
      status |-> StatusText(conn),
      statusColor |-> StatusColor(conn)]

drawStatsScreen(st, conn) ==
  LET cpuColor == IF st.cpu_load > 800 THEN COLOR_WARN ELSE COLOR_TEXT
      gpuColor == IF st.gpu_load > 80 THEN COLOR_WARN ELSE COLOR_TEXT
      ramColor == IF st.ram_p > 850 THEN COLOR_WARN ELSE COLOR_TEXT
      swapColor == IF st.swap_p > 500 THEN COLOR_WARN ELSE COLOR_TEXT
      diskColor == IF st.disk_p > 900 THEN COLOR_WARN ELSE COLOR_TEXT
  IN [layout |-> MODE_STATS,
      title |-> "SYSTEM MONITOR",
      rows |-> << drawLine("CPU", <<ToInt(st.cpu_load), ToInt(st.cpu_temp)>>, cpuColor),
                  drawLine("GPU", <<st.gpu_load, st.gpu_temp>>, gpuColor),
                  drawLine("PWR", <<ToInt(st.gpu_pwr)>>, COLOR_TEXT),
                  drawLine("VRAM", <<Fmt1Div1024(st.vram_used),
                                     Fmt1Div1024(st.vram_total)>>, COLOR_TEXT),
                  drawLine("RAM", <<st.ram_used, st.ram_total>>, ramColor),
                  drawLine("SWAP", <<ToInt(st.swap_p)>>, swapColor),
                  drawLine("DISK", <<ToInt(st.disk_p)>>, diskColor) >>,
      status |-> StatusText(conn),
      statusColor |-> StatusColor(conn)]

(* main.cpp:152-162; load in tenths *)
(* heatColor with each band edge counted into the band below *)
heatColorInclusive(load) ==
  IF load <= 200 THEN COLOR_COLD
  ELSE IF load <= 400 THEN COLOR_DIM
  ELSE IF load <= 600 THEN COLOR_TEXT
  ELSE IF load <= 800 THEN COLOR_BRIGHT
  ELSE COLOR_WARN

heatColor(load) ==
  IF load < 200 THEN COLOR_COLD
  ELSE IF load < 400 THEN COLOR_DIM
  ELSE IF load < 600 THEN COLOR_TEXT
  ELSE IF load < 800 THEN COLOR_BRIGHT
  ELSE COLOR_WARN

(* main.cpp:182: the load shown in cell idx *)
(* CellLoad reading the slot whatever core_count *)
CellLoadAnySlot(st, idx) == st.cores[idx]

CellLoad(st, idx) == IF idx < st.core_count THEN st.cores[idx] ELSE 0

(* main.cpp:211-212, in tenths of a percent *)
VramP(st) ==
  IF st.vram_total > 0 THEN (st.vram_used * 1000) \div st.vram_total ELSE 0

(* A tile or cell: its fill colour and the percentage it prints *)
Tile(label, load) ==
  [label |-> label, color |-> heatColor(load), pct |-> ToInt(load)]

(* main.cpp:164-260 *)
drawReactorScreen(st, conn) ==
  [layout |-> MODE_REACTOR,
   title |-> "REACTOR CORE 4",
   cells |-> [idx \in 0..15 |->
                [index |-> idx,
                 color |-> heatColor(CellLoad(st, idx)),
                 pct |-> ToInt(CellLoad(st, idx))]],
   tiles |-> << [label |-> "GPU", color |-> heatColor(st.gpu_load * 10),
                 pct |-> st.gpu_load],
                Tile("VRAM", VramP(st)),
                Tile("RAM", st.ram_p),
                Tile("SWAP", st.swap_p) >>,
   cpuInfo |-> <<ToInt(st.cpu_temp), ToInt(st.cpu_pwr), st.cpu_fan>>,
   gpuInfo |-> <<st.gpu_temp, ToInt(st.gpu_pwr), st.gpu_fan>>,
   status |-> StatusText(conn),
   statusColor |-> StatusColor(conn)]

(* The display before setup() and the splash setup() draws, main.cpp:68-86 *)
Blank == [layout |-> "none", title |-> "", status |-> "", statusColor |-> COLOR_BG]
Splash == [layout |-> "splash", title |-> "RBMK-1000", status |-> "",
           statusColor |-> COLOR_BG]

----------------------------------------------------------------------------
(* Inputs of a cycle *)

Buttons == {HIGH, LOW}

NoTouch == [z |-> 0, x |-> 0]
TouchSamples ==
  {NoTouch, [z |-> 900, x |-> 40], [z |-> 900, x |-> 160], [z |-> 900, x |-> 300]}

(* Touch samples on the edges of the panel, of the zones and of the        *)
(* pressure threshold                                                      *)
EdgeTouches ==
  {NoTouch} \cup
  {[z |-> z, x |-> x] :
     z \in {TOUCH_THRESHOLD, TOUCH_THRESHOLD + 1},
     x \in {0, TOUCH_LEFT_ZONE - 1, TOUCH_LEFT_ZONE, 160, TOUCH_RIGHT_ZONE,
            TOUCH_RIGHT_ZONE + 1, 319}}

(* The time that passed since the previous cycle ended: less than a        *)
(* quantum, or a quantum.                                                  *)
IdleTimes == {0, Quantum}

----------------------------------------------------------------------------
(* The steps of loop(), each a function of the machine state m: a record   *)
(* of the program's variables, the local dataUpdated and the observations. *)

(* Real time passing: millis() advances by ms *)
Pass(m, ms) ==
  [m EXCEPT !.sinceData = Min(@ + ms, Above(LINK_TIMEOUT_MS)),
            !.sinceDraw = Min(@ + ms, Above(KEEPALIVE_MS)),
            !.sinceChange = Min(@ + ms, DEBOUNCE_MS)]

(* delay(ms) *)
delay(m, ms) == Pass([m EXCEPT !.delayed = @ + ms], ms)

(* SetMode with the delay left out *)
SetModeNoDelay(m, mode, by) ==
  [m EXCEPT !.currentMode = mode,
            !.modeChanged = TRUE,
            !.changes = Append(@, [by |-> by, gap |-> m.sinceChange]),
            !.sinceChange = 0]

(* currentMode = mode; modeChanged = true; delay(300);                     *)
(* main.cpp:266-268, 276-278, 282-284                                      *)
SetMode(m, mode, by) ==
  delay([m EXCEPT !.currentMode = mode,
                  !.modeChanged = TRUE,
                  !.changes = Append(@, [by |-> by, gap |-> m.sinceChange]),
                  !.sinceChange = 0],
        DEBOUNCE_MS)

Toggle(mode) == IF mode = MODE_STATS THEN MODE_REACTOR ELSE MODE_STATS

(* ReadButton toggling on the level of the pin *)
ReadButtonLevel(m, btn) ==
  LET m1 == IF btn = LOW
            THEN SetMode(m, Toggle(m.currentMode), "button")
            ELSE m
  IN [m1 EXCEPT !.lastBtn = btn]

(* main.cpp:263-270 *)
ReadButton(m, btn) ==
  LET m1 == IF btn = LOW /\ m.lastBtn = HIGH
            THEN SetMode(m, Toggle(m.currentMode), "button")
            ELSE m
  IN [m1 EXCEPT !.lastBtn = btn]

(* tft.getTouch(&touchX, &touchY, TOUCH_THRESHOLD), main.cpp:273 *)
getTouch(t) == t.z > TOUCH_THRESHOLD

(* ReadTouch reassigning the layout of a zone whatever the active one *)
ReadTouchAlways(m, t) ==
  IF getTouch(t)
  THEN IF t.x < TOUCH_LEFT_ZONE
       THEN SetMode(m, MODE_STATS, "touch")
       ELSE IF t.x > TOUCH_RIGHT_ZONE
            THEN SetMode(m, MODE_REACTOR, "touch")
            ELSE m
  ELSE m

(* ReadTouch with the zone edges counted into the zones *)
ReadTouchInclusive(m, t) ==
  IF getTouch(t)
  THEN IF t.x <= TOUCH_LEFT_ZONE
       THEN IF m.currentMode # MODE_STATS
            THEN SetMode(m, MODE_STATS, "touch")
            ELSE m
       ELSE IF t.x >= TOUCH_RIGHT_ZONE
            THEN IF m.currentMode # MODE_REACTOR
                 THEN SetMode(m, MODE_REACTOR, "touch")
                 ELSE m
            ELSE m
  ELSE m

(* ReadTouch giving way to a button toggle of the same cycle *)
ReadTouchUnlessChanged(m, t) ==
  IF getTouch(t) /\ m.changes = <<>>
  THEN IF t.x < TOUCH_LEFT_ZONE
       THEN IF m.currentMode # MODE_STATS
            THEN SetMode(m, MODE_STATS, "touch")
            ELSE m
       ELSE IF t.x > TOUCH_RIGHT_ZONE
            THEN IF m.currentMode # MODE_REACTOR
                 THEN SetMode(m, MODE_REACTOR, "touch")
                 ELSE m
            ELSE m
  ELSE m

(* main.cpp:272-287 *)
ReadTouch(m, t) ==
  IF getTouch(t)
  THEN IF t.x < TOUCH_LEFT_ZONE
       THEN IF m.currentMode # MODE_STATS
            THEN SetMode(m, MODE_STATS, "touch")
            ELSE m
       ELSE IF t.x > TOUCH_RIGHT_ZONE
            THEN IF m.currentMode # MODE_REACTOR
                 THEN SetMode(m, MODE_REACTOR, "touch")
                 ELSE m
            ELSE m
  ELSE m

(* ReadSerial clearing the snapshot when the line is rejected *)
ReadSerialResetOnError(m, l) ==
  IF l # NoLine
  THEN LET r == deserializeJson(l)
       IN IF r.error = "Ok"
          THEN [m EXCEPT !.sinceData = 0,
                         !.isConnected = TRUE,
                         !.dataUpdated = TRUE,
                         !.stats = Decode(m.stats, r.doc)]
          ELSE [m EXCEPT !.stats = SystemStats]
  ELSE m

(* ReadSerial accepting only documents that hold every group *)
ReadSerialRequiresGroups(m, l) ==
  IF l # NoLine
  THEN LET r == deserializeJson(l)
       IN IF r.error = "Ok" /\ Groups \subseteq DOMAIN r.doc
          THEN [m EXCEPT !.sinceData = 0,
                         !.isConnected = TRUE,
                         !.dataUpdated = TRUE,
                         !.stats = Decode(m.stats, r.doc)]
          ELSE m
  ELSE m

(* main.cpp:291-331; l = NoLine when Serial.available() is 0 *)
(* ReadSerial adding the record's network counters to the stored ones *)
ReadSerialAccumulating(m, l) ==
  IF l # NoLine
  THEN LET r == deserializeJson(l)
       IN IF r.error = "Ok"
          THEN [m EXCEPT !.sinceData = 0,
                         !.isConnected = TRUE,
                         !.dataUpdated = TRUE,
                         !.stats = [Decode(m.stats, r.doc) EXCEPT
                                      !.net_sent = m.stats.net_sent + @,
                                      !.net_recv = m.stats.net_recv + @]]
          ELSE m
  ELSE m

(* ReadSerial with the core slots zeroed before each decode *)
ReadSerialClearingCores(m, l) ==
  IF l # NoLine
  THEN LET r == deserializeJson(l)
       IN IF r.error = "Ok"
          THEN [m EXCEPT !.sinceData = 0,
                         !.isConnected = TRUE,
                         !.dataUpdated = TRUE,
                         !.stats = Decode([m.stats EXCEPT !.cores = Cores0],
                                          r.doc)]
          ELSE m
  ELSE m

ReadSerial(m, l) ==
  IF l # NoLine
  THEN LET r == deserializeJson(l)
       IN IF r.error = "Ok"
          THEN [m EXCEPT !.sinceData = 0,
                         !.isConnected = TRUE,
                         !.dataUpdated = TRUE,
                         !.stats = Decode(m.stats, r.doc)]
          ELSE m
  ELSE m

(* CheckLink with >= for > *)
CheckLinkAtThreshold(m) ==
  IF m.sinceData >= LINK_TIMEOUT_MS
  THEN IF m.isConnected
       THEN [m EXCEPT !.isConnected = FALSE, !.dataUpdated = TRUE]
       ELSE m
  ELSE m

(* CheckLink measuring from lastDrawTime instead of lastDataTime *)
CheckLinkAgainstDraw(m) ==
  IF m.sinceDraw > LINK_TIMEOUT_MS
  THEN IF m.isConnected
       THEN [m EXCEPT !.isConnected = FALSE, !.dataUpdated = TRUE]
       ELSE m
  ELSE m

(* CheckLink clearing the snapshot when the link is lost *)
CheckLinkResetsStats(m) ==
  IF m.sinceData > LINK_TIMEOUT_MS
  THEN IF m.isConnected
       THEN [m EXCEPT !.isConnected = FALSE, !.dataUpdated = TRUE,
                      !.stats = SystemStats]
       ELSE m
  ELSE m

(* main.cpp:333-338 *)
CheckLink(m) ==
  IF m.sinceData > LINK_TIMEOUT_MS
  THEN IF m.isConnected
       THEN [m EXCEPT !.isConnected = FALSE, !.dataUpdated = TRUE]
       ELSE m
  ELSE m

(* main.cpp:343-347: the renderer currentMode selects *)
Render(mode, st, conn) ==
  IF mode = MODE_STATS
  THEN drawStatsScreen(st, conn)
  ELSE drawReactorScreen(st, conn)

(* NeedsRedraw without the modeChanged trigger *)
NeedsRedrawIgnoringMode(m) ==
  m.dataUpdated \/ m.sinceDraw > KEEPALIVE_MS

(* main.cpp:342: the redraw decision *)
NeedsRedraw(m) ==
  m.dataUpdated \/ m.modeChanged \/ m.sinceDraw > KEEPALIVE_MS

(* main.cpp:340-349 *)
Redraw(m) ==
  IF NeedsRedraw(m)
  THEN [m EXCEPT !.screen = Render(m.currentMode, m.stats, m.isConnected),
                 !.sinceDraw = 0,
                 !.drawAge = m.sinceDraw,
                 !.drawn = TRUE]
  ELSE [m EXCEPT !.drawAge = m.sinceDraw]

(* loop(), main.cpp:262-350 *)
(* LoopBody redrawing before it handles the inputs *)
LoopBodyDrawFirst(m, btn, t, l) ==
  CheckLink(ReadSerial(ReadTouch(ReadButton(Redraw(m), btn), t), l))

LoopBody(m, btn, t, l) ==
  Redraw(CheckLink(ReadSerial(ReadTouch(ReadButton(m, btn), t), l)))

----------------------------------------------------------------------------
(* The state machine *)

Init ==
  /\ pc = "setup"
  /\ currentMode = MODE_REACTOR
  /\ modeChanged = TRUE
  /\ stats = SystemStats
  /\ sinceData = 0
  /\ isConnected = FALSE
  /\ lastBtn = HIGH
  /\ sinceDraw = 0
  /\ screen = Blank
  /\ touch = NoTouch
  /\ line = NoLine
  /\ dataUpdated = FALSE
  /\ drawAge = 0
  /\ drawn = FALSE
  /\ changes = <<>>
  /\ sinceChange = DEBOUNCE_MS
  /\ delayed = 0
  /\ repeated = FALSE
  /\ again = FALSE

(* setup(), main.cpp:60-88: draws the splash and waits delay(1500) *)
Setup ==
  /\ pc = "setup"
  /\ pc' = "loop"
  /\ screen' = Splash
  /\ sinceData' = Min(sinceData + SPLASH_MS, Above(LINK_TIMEOUT_MS))
  /\ sinceDraw' = Min(sinceDraw + SPLASH_MS, Above(KEEPALIVE_MS))
  /\ UNCHANGED <<currentMode, modeChanged, stats, isConnected, lastBtn,
                 touch, line, dataUpdated, drawAge, drawn, changes,
                 sinceChange, delayed, repeated, again>>

(* The machine state a cycle starts from *)
Entry(idle) ==
  Pass([currentMode |-> currentMode, modeChanged |-> modeChanged,
        stats |-> stats, sinceData |-> sinceData,
        isConnected |-> isConnected, lastBtn |-> lastBtn,
        sinceDraw |-> sinceDraw, screen |-> screen,
        dataUpdated |-> FALSE, drawAge |-> 0, drawn |-> FALSE,
        changes |-> <<>>,
        sinceChange |-> sinceChange,
        delayed |-> 0],
       idle)

(* One cycle of loop().  Its inputs: the time idle since the previous      *)
(* cycle, the level btn of the button pin at digitalRead, the touch sample *)
(* t, the serial line l, and whether the button went up and down again     *)
(* between the two samples (re), which takes both samples to be LOW.       *)
Cycle(idle, btn, t, l, re) ==
  /\ pc = "loop"
  /\ re => (btn = LOW /\ lastBtn = LOW)
  /\ \E m \in {LoopBody(Entry(idle), btn, t, l)} :
        /\ currentMode' = m.currentMode
        /\ modeChanged' = m.modeChanged
        /\ stats' = m.stats
        /\ sinceData' = m.sinceData
        /\ isConnected' = m.isConnected
        /\ lastBtn' = m.lastBtn
        /\ sinceDraw' = m.sinceDraw
        /\ screen' = m.screen
        /\ dataUpdated' = m.dataUpdated
        /\ drawAge' = m.drawAge
        /\ drawn' = m.drawn
        /\ changes' = m.changes
        /\ sinceChange' = m.sinceChange
        /\ delayed' = m.delayed
  /\ touch' = t
  /\ line' = l
  /\ repeated' = (l = line /\ l # NoLine /\ deserializeJson(l).error = "Ok")
  /\ again' = re
  /\ UNCHANGED pc

(* The cycles whose inputs come from the given sets *)
LoopOver(idles, btns, touches, lines, res) ==
  \E idle \in idles, btn \in btns, t \in touches, l \in lines, re \in res :
    Cycle(idle, btn, t, l, re)

Loop ==
  LoopOver(IdleTimes, Buttons, TouchSamples, Lines \cup {NoLine}, {FALSE})

Next == Setup \/ Loop

Spec == Init /\ [][Next]_vars

(* The specification for liveness.  Its cycles draw their inputs from     *)
(* smaller sets: both button levels, a touch in the left zone or none, and *)
(* a line that decodes, one that is rejected, or none.  Fairness: the      *)
(* Arduino core calls loop() again and again and the clock keeps running,  *)
(* so cycles that see time advance keep happening.                         *)
LiveTouches == {NoTouch, [z |-> 900, x |-> 40]}
LiveLines == {NoLine, LineFull, LineCut}

LiveLoop == LoopOver(IdleTimes, Buttons, LiveTouches, LiveLines, {FALSE})

TimedLoop == LoopOver({Quantum}, Buttons, LiveTouches, LiveLines, {FALSE})

LiveNext == Setup \/ LiveLoop

LiveSpec ==
  Init /\ [][LiveNext]_vars /\ WF_vars(Setup) /\ WF_vars(TimedLoop)

(* The specification for the input handling: touch samples on the edges   *)
(* of the zones, a button that may go up and down again between two        *)
(* samples, and a silent serial port.                                      *)
PanelLoop == LoopOver(IdleTimes, Buttons, EdgeTouches, {NoLine}, BOOLEAN)

PanelNext == Setup \/ PanelLoop

PanelSpec == Init /\ [][PanelNext]_vars

(* The specification for the core-load sequence: records of 0, 2, 4, 11    *)
(* and 17 cores in any order, cycles in immediate succession.              *)
CoreLines == {NoLine, LineEmpty, LineHot, LineFull, LineBands, LineMany}

CoreLoop == LoopOver({0}, Buttons, {NoTouch}, CoreLines, {FALSE})

CoreNext == Setup \/ CoreLoop

CoreSpec == Init /\ [][CoreNext]_vars

(* The specification for the renderers' colours: records whose loads sit   *)
(* on the edges of the heat bands and of the warning thresholds.           *)
RenderLines == WarnLines \cup {NoLine, LineFull, LineBands}

RenderLoop == LoopOver({0}, Buttons, {NoTouch}, RenderLines, {FALSE})

RenderNext == Setup \/ RenderLoop

RenderSpec == Init /\ [][RenderNext]_vars

----------------------------------------------------------------------------
(* Properties *)

(* The last cycle consumed a line and decoded it / and rejected it *)
Decoded == line # NoLine /\ deserializeJson(line).error = "Ok"
Rejected == line # NoLine /\ deserializeJson(line).error # "Ok"

(* l parses, and its document lacks a required top-level group *)
LacksGroup(l) ==
  /\ l # NoLine
  /\ deserializeJson(l).error = "Ok"
  /\ Groups \ DOMAIN deserializeJson(l).doc # {}

(* The fields of SystemStats that are read from each group *)
StatFields ==
  [cpu  |-> {"cpu_load", "cpu_temp", "cpu_freq", "cpu_pwr", "cpu_fan",
             "core_count"},
   ram  |-> {"ram_used", "ram_total", "ram_p"},
   swap |-> {"swap_used", "swap_p"},
   gpu  |-> {"gpu_load", "vram_used", "vram_total", "gpu_temp", "gpu_pwr",
             "gpu_fan"},
   disk |-> {"disk_p"},
   net  |-> {"net_sent", "net_recv"}]

(* The layout a touch sample asks for, "none" if it asks for none *)
TouchSelects(t) ==
  IF getTouch(t) /\ t.x < TOUCH_LEFT_ZONE THEN MODE_STATS
  ELSE IF getTouch(t) /\ t.x > TOUCH_RIGHT_ZONE THEN MODE_REACTOR
  ELSE "none"

(* C1: a cycle that consumes a line deserializeJson rejects leaves every   *)
(* field of stats, core_count and the 16 core slots included, as it was.   *)
C1_RejectedLineKeepsStats ==
  [][(pc = "loop" /\ Rejected') => stats' = stats]_vars

(* A rejected line was consumed while a decoded snapshot was in force *)
C1_Witness ==
  Rejected /\ isConnected /\ stats.core_count > 0 /\ stats.cpu_load > 0

C3_LinkTransitions ==
  [][pc = "loop"
       => /\ Decoded' => isConnected'
          /\ (isConnected /\ ~isConnected') => sinceData' > LINK_TIMEOUT_MS]_vars

(* The cycle that lost the link: dataUpdated set without a decode *)
C3_Witness ==
  ~isConnected /\ dataUpdated /\ ~Decoded /\ sinceData > LINK_TIMEOUT_MS

(* C4: once connected, if no further line decodes, isConnected eventually  *)
(* becomes false; it does so in the first cycle whose link check sees more *)
(* than 3000 ms, and that cycle redraws with the status OFFLINE.           *)
C4_EventuallyOffline ==
  /\ (isConnected /\ ~Decoded) ~> (~isConnected \/ Decoded)
  /\ [][(pc = "loop" /\ isConnected /\ ~Decoded'
           /\ sinceData' > LINK_TIMEOUT_MS)
          => (~isConnected' /\ drawn' /\ screen'.status = "OFFLINE")]_vars

(* The link was lost and the frame on the display says OFFLINE *)
C4_Witness ==
  /\ ~isConnected /\ dataUpdated /\ ~Decoded
  /\ drawn /\ screen.status = "OFFLINE" /\ screen.statusColor = COLOR_WARN

(* C5: losing the link, and every cycle spent disconnected without a       *)
(* decode, leaves stats unchanged, and a frame drawn then shows them.      *)
C5_OfflineKeepsStats ==
  [][(pc = "loop" /\ ~isConnected' /\ ~Decoded')
       => /\ stats' = stats
          /\ drawn' => screen' = Render(currentMode', stats, FALSE)]_vars

(* Disconnected in steady state with decoded values still in stats *)
C5_Witness ==
  /\ ~isConnected /\ ~dataUpdated /\ ~Decoded
  /\ stats.cpu_load > 0
  /\ drawn /\ screen.status = "OFFLINE"

(* C6 as stated: disconnected in steady state (no decode, no edge, no      *)
(* layout change) and at most 200 ms after the last redraw, a cycle does   *)
(* not redraw.                                                             *)
C6_NoRedrawWhenIdleOffline ==
  [][(pc = "loop" /\ ~isConnected /\ ~isConnected' /\ ~Decoded'
        /\ changes' = <<>> /\ drawAge' <= KEEPALIVE_MS)
       => ~drawn']_vars

(* C7 as stated: after a cycle that redrew, modeChanged is false *)
C7_RedrawClearsModeChanged ==
  (pc = "loop" /\ drawn) => ~modeChanged

(* C8: a cycle redraws iff a line decoded, isConnected changed, modeChanged *)
(* is set or more than 200 ms passed since lastDrawTime; a redraw sets      *)
(* lastDrawTime to millis() and shows the frame of the renderer currentMode *)
(* selects; a cycle without a redraw leaves display and lastDrawTime alone. *)
C8_RedrawIffTrigger ==
  [][pc = "loop"
       => /\ drawn' <=> \/ Decoded'
                        \/ isConnected' # isConnected
                        \/ modeChanged'
                        \/ drawAge' > KEEPALIVE_MS
          /\ drawn' => /\ sinceDraw' = 0
                       /\ screen' = Render(currentMode', stats', isConnected')
                       /\ screen'.layout = currentMode'
          /\ ~drawn' => /\ screen' = screen
                        /\ sinceDraw' = drawAge']_vars

(* A redraw whose only triggers are modeChanged and the keep-alive timer *)
C8_Witness ==
  /\ pc = "loop" /\ drawn /\ ~dataUpdated
  /\ drawAge > KEEPALIVE_MS
  /\ screen.layout = currentMode

(* C9: every reassignment of currentMode comes at least 300 ms after the   *)
(* one before it, whichever of button and touch made them.                 *)
C9_Debounce ==
  \A i \in 1..Len(changes) : changes[i].gap >= DEBOUNCE_MS

(* A touch change right after a button change, exactly 300 ms apart *)
C9_Witness ==
  /\ Len(changes) = 2
  /\ changes[1].by = "button"
  /\ changes[2].gap = DEBOUNCE_MS

(* C10 as stated: at most one input path changes the layout in a cycle *)
C10_OnePathPerCycle ==
  Len(changes) <= 1

(* C10 amended: in a cycle the button and the touch each reassign          *)
(* currentMode at most once, the button first; both do exactly when the    *)
(* button edge toggles currentMode and the touch sampled after the         *)
(* button's delay selects the layout the button left, and the cycle then   *)
(* ends in the layout the touch selected.                                  *)
C10_TouchOverridesButton ==
  [][pc = "loop"
       => LET edge == lastBtn = HIGH /\ lastBtn' = LOW
              both == Len(changes') = 2
          IN /\ Len(changes') <= 2
             /\ both => /\ changes'[1].by = "button"
                        /\ changes'[2].by = "touch"
             /\ both <=> (edge /\ TouchSelects(touch') = currentMode)
             /\ both => currentMode' = TouchSelects(touch')]_vars

(* The button toggled the layout and the touch of the same cycle put it back *)
C10_Witness ==
  /\ Len(changes) = 2
  /\ changes[2].by = "touch"
  /\ lastBtn = LOW
  /\ currentMode = TouchSelects(touch)

----------------------------------------------------------------------------
(* Input handling *)

(* The number of reassignments of currentMode in cs made by the given path *)
Count(cs, by) == Cardinality({i \in DOMAIN cs : cs[i].by = by})

(* The step is a cycle whose button block sees a released-to-pressed edge *)
ButtonEdge == lastBtn = HIGH /\ lastBtn' = LOW

(* The layout that is active when the step's cycle reaches its touch block *)
ModeAtTouch ==
  IF ButtonEdge
  THEN IF currentMode = MODE_STATS THEN MODE_REACTOR ELSE MODE_STATS
  ELSE currentMode

(* C11: a valid touch in the zone of the layout that is already active is  *)
(* a no-op: the touch block reassigns nothing (currentMode stays the       *)
(* layout it found, modeChanged stays what the button block left), and the *)
(* cycle spends no time in delay() beyond that of a button toggle.         *)
C11_RedundantTouchIsNoOp ==
  [][TouchSelects(touch') = ModeAtTouch =>
       /\ currentMode' = ModeAtTouch
       /\ modeChanged' = (modeChanged \/ ButtonEdge)
       /\ Count(changes', "touch") = 0
       /\ delayed' = (IF ButtonEdge THEN DEBOUNCE_MS ELSE 0)]_vars

(* A cycle took a valid touch in the left zone while the Dashboard was     *)
(* active and went through without a reassignment or a delay               *)
C11_Witness ==
  /\ pc = "loop"
  /\ getTouch(touch) /\ touch.x < TOUCH_LEFT_ZONE
  /\ currentMode = MODE_STATS
  /\ changes = <<>>
  /\ delayed = 0

(* C12: the layout after the touch block is a function of the sample: for  *)
(* a valid touch (pressure above the threshold) with X in 0..319 it is the *)
(* Dashboard when X < 80, the Grid when X > 240, and the layout the block  *)
(* found when 80 <= X <= 240; a sample at or below the threshold leaves    *)
(* the layout the block found.                                             *)
C12_TouchSelectsByZone ==
  [][LET t == touch'
     IN IF t.z > TOUCH_THRESHOLD
        THEN /\ t.x \in 0..(TOUCH_LEFT_ZONE - 1) => currentMode' = MODE_STATS
             /\ t.x \in (TOUCH_RIGHT_ZONE + 1)..319 =>
                   currentMode' = MODE_REACTOR
             /\ t.x \in TOUCH_LEFT_ZONE..TOUCH_RIGHT_ZONE =>
                   currentMode' = ModeAtTouch
        ELSE currentMode' = ModeAtTouch]_vars

(* A valid touch on the first column of the right zone switched from the   *)
(* Dashboard to the Grid                                                   *)
C12_Witness ==
  /\ touch.z = TOUCH_THRESHOLD + 1
  /\ touch.x = TOUCH_RIGHT_ZONE + 1
  /\ currentMode = MODE_REACTOR
  /\ Count(changes, "touch") = 1

----------------------------------------------------------------------------
(* The core-load sequence *)

(* The core entries of the record that line l spells *)
RecordCores(l) ==
  LET doc == deserializeJson(l).doc
  IN IF "cpu" \in DOMAIN doc /\ "cores" \in DOMAIN doc.cpu
     THEN doc.cpu.cores
     ELSE <<>>

(* C13: core_count is always within 0..16; after a successful decode of a  *)
(* record with N core entries it is min(N, 16) and the slots below it hold *)
(* the record's first entries in order; and a Grid frame shows load 0, in  *)
(* the colour of load 0, in every cell at an index >= core_count, whatever *)
(* the slot holds.                                                         *)
C13_CoreCountBounds ==
  /\ stats.core_count \in 0..16
  /\ Decoded =>
       LET rc == RecordCores(line)
       IN /\ stats.core_count = (IF Len(rc) <= 16 THEN Len(rc) ELSE 16)
          /\ \A i \in 0..(stats.core_count - 1) : stats.cores[i] = rc[i + 1]
  /\ (drawn /\ screen.layout = MODE_REACTOR) =>
       \A idx \in 0..15 :
         idx >= stats.core_count =>
           screen.cells[idx].pct = 0 /\ screen.cells[idx].color = COLOR_COLD

(* A Grid frame of a two-core record whose third slot still holds a load   *)
(* of an earlier record shows 0 in the third cell                          *)
C13_Witness ==
  /\ Decoded
  /\ stats.core_count = 2
  /\ stats.cores[2] > 0
  /\ drawn /\ screen.layout = MODE_REACTOR
  /\ screen.cells[2].pct = 0

(* C14 as stated: no slot at an index >= core_count carries a load of an   *)
(* earlier record, that is, every such slot holds the 0 it started with.   *)
C14_NoStaleCores ==
  \A i \in 0..15 : i >= stats.core_count => stats.cores[i] = 0

(* C14, amended: a successful decode leaves every slot at an index >=      *)
(* core_count as it found it, so loads of an earlier record with more      *)
(* cores stay in the slots beyond the count of a later one.                *)
C14_StaleCoresKept ==
  [][Decoded' =>
       \A i \in 0..15 :
         i >= stats'.core_count => stats'.cores[i] = stats.cores[i]]_vars

(* After the four-core record and then the two-core record, slots 2 and 3  *)
(* still hold the third and fourth load of the four-core record            *)
C14_Witness ==
  /\ line = LineHot /\ Decoded
  /\ stats.core_count = 2
  /\ stats.cores[2] = DocFull.cpu.cores[3]
  /\ stats.cores[3] = DocFull.cpu.cores[4]

----------------------------------------------------------------------------
(* Colours *)

(* The colours of the five heat bands, coldest first *)
BandColors == <<COLOR_COLD, COLOR_DIM, COLOR_TEXT, COLOR_BRIGHT, COLOR_WARN>>

(* The band (0..4) whose colour is c *)
BandOf(c) == (CHOOSE b \in DOMAIN BandColors : BandColors[b] = c) - 1

(* The load that cell idx of a Grid frame of the live stats stands for *)
ShownLoad(idx) == IF idx < stats.core_count THEN stats.cores[idx] ELSE 0

(* C15: in a Grid frame every cell has the colour of exactly one of five   *)
(* bands, band 0 for a load < 20, band 1 for 20 <= load < 40, band 2 for   *)
(* 40 <= load < 60, band 3 for 60 <= load < 80 and band 4 for everything   *)
(* else; the band does not decrease with the load; and the loads 19.9,     *)
(* 20.0, 39.9, 40.0, 79.9, 80.0 and 100.0 get the bands 0, 1, 1, 2, 3, 4   *)
(* and 4 (loads in tenths).                                                *)
C15_HeatBands ==
  (drawn /\ screen.layout = MODE_REACTOR) =>
    \A i \in 0..15 :
      LET load == ShownLoad(i)
          c == screen.cells[i].color
      IN /\ \E b \in DOMAIN BandColors : BandColors[b] = c
         /\ BandOf(c) = 0 <=> load < 200
         /\ BandOf(c) = 1 <=> (200 <= load /\ load < 400)
         /\ BandOf(c) = 2 <=> (400 <= load /\ load < 600)
         /\ BandOf(c) = 3 <=> (600 <= load /\ load < 800)
         /\ BandOf(c) = 4 <=> 800 <= load
         /\ \A j \in 0..15 :
              load <= ShownLoad(j) => BandOf(c) <= BandOf(screen.cells[j].color)
         /\ load = 199 => BandOf(c) = 0
         /\ load = 200 => BandOf(c) = 1
         /\ load = 399 => BandOf(c) = 1
         /\ load = 400 => BandOf(c) = 2
         /\ load = 799 => BandOf(c) = 3
         /\ load = 800 => BandOf(c) = 4
         /\ load = 1000 => BandOf(c) = 4

(* A Grid frame of the record whose loads sit on the band edges: 19.9 is   *)
(* drawn cold and 20.0 in the next band, 79.9 bright and 80.0 as a warning *)
C15_Witness ==
  /\ line = LineBands /\ Decoded
  /\ drawn /\ screen.layout = MODE_REACTOR
  /\ stats.cores[1] = 199 /\ screen.cells[1].color = COLOR_COLD
  /\ stats.cores[2] = 200 /\ screen.cells[2].color = COLOR_DIM
  /\ stats.cores[7] = 799 /\ screen.cells[7].color = COLOR_BRIGHT
  /\ stats.cores[8] = 800 /\ screen.cells[8].color = COLOR_WARN

(* The row of a Dashboard frame that carries the given label *)
Row(label) ==
  screen.rows[CHOOSE r \in DOMAIN screen.rows : screen.rows[r].label = label]

(* The colour of a row that warns exactly when w holds *)
WarnIf(w) == IF w THEN COLOR_WARN ELSE COLOR_TEXT

(* C16: a Dashboard frame draws the CPU row in the warning colour iff      *)
(* cpu_load > 80, the GPU row iff gpu_load > 80, the RAM row iff           *)
(* ram_p > 85, the swap row iff swap_p > 50 and the disk row iff           *)
(* disk_p > 90, each in the normal colour otherwise (a value on its        *)
(* threshold is normal), and the power and VRAM rows in the normal colour. *)
C16_WarnColours ==
  (drawn /\ screen.layout = MODE_STATS) =>
    /\ Row("CPU").color = WarnIf(stats.cpu_load > 800)
    /\ Row("GPU").color = WarnIf(stats.gpu_load > 80)
    /\ Row("RAM").color = WarnIf(stats.ram_p > 850)
    /\ Row("SWAP").color = WarnIf(stats.swap_p > 500)
    /\ Row("DISK").color = WarnIf(stats.disk_p > 900)
    /\ Row("PWR").color = COLOR_TEXT
    /\ Row("VRAM").color = COLOR_TEXT

(* A Dashboard frame of a record with the cpu load and the swap            *)
(* percentage on their thresholds (normal) and the gpu load, the ram and   *)
(* the disk percentage just above theirs (warning)                         *)
C16_Witness ==
  /\ line = WarnLine(800, 810, 851, 500, 901) /\ Decoded
  /\ drawn /\ screen.layout = MODE_STATS
  /\ stats.cpu_load = 800 /\ Row("CPU").color = COLOR_TEXT
  /\ stats.swap_p = 500 /\ Row("SWAP").color = COLOR_TEXT
  /\ stats.gpu_load = 81 /\ Row("GPU").color = COLOR_WARN
  /\ stats.ram_p = 851 /\ Row("RAM").color = COLOR_WARN
  /\ stats.disk_p = 901 /\ Row("DISK").color = COLOR_WARN

----------------------------------------------------------------------------
(* Decoding *)

(* C17: decoding is idempotent: a cycle that decodes the very line the     *)
(* previous cycle decoded leaves stats, field for field, as the previous   *)
(* cycle left it, whatever stats was before the first of the two decodes.  *)
C17_DecodeIdempotent ==
  [][repeated' => stats' = stats]_vars

(* The two-core record was decoded twice in a row on top of a snapshot of  *)
(* a record with more cores                                                *)
C17_Witness ==
  /\ repeated
  /\ line = LineHot
  /\ stats.core_count = 2
  /\ stats.cores[2] > 0
  /\ stats.cpu_load = DocHot.cpu.load

----------------------------------------------------------------------------
(* The button *)

(* C18: the button is edge-triggered: a cycle reassigns currentMode by the *)
(* button once if it samples LOW after a HIGH sample of the previous cycle *)
(* and not at all otherwise, so a button held LOW over consecutive cycles  *)
(* toggles once; a button toggle without a touch reassignment in the same  *)
(* cycle turns each of the two layouts into the other, so two of them      *)
(* restore the layout.                                                     *)
C18_ButtonEdgeTriggered ==
  [][/\ Count(changes', "button") = (IF ButtonEdge THEN 1 ELSE 0)
     /\ (lastBtn = LOW /\ lastBtn' = LOW) => Count(changes', "button") = 0
     /\ Count(changes', "touch") = 0 =>
          /\ ButtonEdge /\ currentMode = MODE_STATS =>
                currentMode' = MODE_REACTOR
          /\ ButtonEdge /\ currentMode = MODE_REACTOR =>
                currentMode' = MODE_STATS
          /\ ~ButtonEdge => currentMode' = currentMode
     /\ currentMode' \in {MODE_STATS, MODE_REACTOR}]_vars

(* The button is held LOW, with no touch, in a cycle after the one that    *)
(* toggled to the Dashboard: the cycle reassigned nothing                  *)
C18_Witness ==
  /\ pc = "loop"
  /\ lastBtn = LOW
  /\ again = FALSE
  /\ touch = NoTouch
  /\ changes = <<>>
  /\ currentMode = MODE_STATS

----------------------------------------------------------------------------
(* Layout changes and the display *)

(* C19: a cycle in which the button or a touch reassigns currentMode       *)
(* redraws, and the frame it leaves on the display is the one of the new   *)
(* currentMode, drawn from the stats and the link state the cycle ends     *)
(* with.                                                                   *)
C19_ChangeIsRendered ==
  [][changes' # <<>> =>
       /\ drawn'
       /\ screen'.layout = currentMode'
       /\ currentMode' = MODE_STATS =>
            screen' = drawStatsScreen(stats', isConnected')
       /\ currentMode' = MODE_REACTOR =>
            screen' = drawReactorScreen(stats', isConnected')]_vars

(* A touch in the left zone switched from the Grid to the Dashboard while  *)
(* the link was up, and the cycle left a Dashboard frame on the display    *)
C19_Witness ==
  /\ Count(changes, "touch") = 1
  /\ currentMode = MODE_STATS
  /\ isConnected
  /\ drawn
  /\ screen.layout = MODE_STATS
  /\ screen.status = "ONLINE"

(* C20 as stated: no button press is lost.  A cycle samples the button     *)
(* LOW at the end of a press that began after the previous cycle's delays  *)
(* were over and was held since: either the previous sample was HIGH, or   *)
(* it was LOW and the button went up after it (during the delay of the     *)
(* toggle, say) and down again.  Every such cycle toggles the layout by    *)
(* the button exactly once.                                                *)
C20_NoPressLost ==
  [][(lastBtn' = LOW /\ (lastBtn = HIGH \/ again')) =>
       Count(changes', "button") = 1]_vars

====
